---- MODULE Spec2Model ----
(***************************************************************************)
(* Gamification ledger of the EVAT backend: GamificationController's       *)
(* purchaseVirtualItem and logAction handlers over the game_profiles,      *)
(* game_events and game_virtual_items collections, and the management of   *)
(* the game_badges and game_quests catalogs; and the charging sessions of  *)
(* ChargerSessionController, ChargerSessionService and                     *)
(* ChargerSessionRepository over the charger_sessions collection.          *)
(* (src/src/controllers/gamification-controller.ts,                        *)
(* src/src/models/game-model.ts).                                          *)
(*                                                                         *)
(* A handler is split where it awaits the database: every step below is    *)
(* the synchronous code between two awaits together with the database      *)
(* operation that ends it.  Requests of different slots interleave at the  *)
(* awaits, as they do on Node's event loop.                                *)
(***************************************************************************)
EXTENDS Integers, Sequences, FiniteSets, TLC

VARIABLES
    game_profiles,       \* collection "game_profiles": a set of documents
    game_events,         \* collection "game_events": documents in insertion order
    game_virtual_items,  \* collection "game_virtual_items": a set of documents
    game_badges,         \* collection "game_badges": a set of documents
    game_quests,         \* collection "game_quests": a set of documents
    charger_sessions,    \* collection "charger_sessions": a set of documents
    nextOid,             \* next _id handed to a created catalog document
    now,                 \* the server clock (new Date()), in ticks of local time
    calls,               \* per request slot: position and locals of the handler
    pre,                 \* per request slot: the store as it was when the request arrived
    nCalls               \* number of requests received so far

vars ==
    <<game_profiles, game_events, game_virtual_items, game_badges, game_quests,
      charger_sessions, nextOid, now, calls, pre, nCalls>>

----------------------------------------------------------------------------
(* Bounds *)

MaxCalls == 3
MaxTime == 3
MaxItems == 2
TicksPerDay == 2
MaxClock == 7
MaxEvents == 3

Users == {"u1"}
Slots == {1, 2}
ItemIds == {"item_a"}

(* a nullable value is the empty set (null) or a singleton *)
NULL == {}
Some(v) == {v}
Val(x) == CHOOSE v \in x : TRUE

(* request bodies the catalog management interface is driven with *)
ItemBodies ==
    { [cost_points |-> NULL,     value_points |-> 5],
      [cost_points |-> Some(10), value_points |-> 5],
      [cost_points |-> Some(60), value_points |-> 80] }

----------------------------------------------------------------------------
(* Reward table and data model *)

actionPoints ==
    [ app_login |-> 10,
      check_in |-> 10,
      upload_photo |-> 15,
      fun_quiz_correct |-> 20,
      ask_chatbot_question |-> 20,
      use_route_planner |-> 25,
      report_fault |-> 50,
      validate_ai_prediction |-> 75,
      redeem_easter_egg |-> 100,
      complete_long_trip_with_planner |-> 150,
      charge_at_green_station |-> 250,
      discover_new_station_in_black_spot |-> 1000 ]

(* a reward for actions the table does not list *)
PointsToAdd_Default(action_type) ==
    IF action_type \in DOMAIN actionPoints THEN actionPoints[action_type] ELSE 5

(* actionPoints[action_type] || 0 *)
PointsToAdd(action_type) ==
    IF action_type \in DOMAIN actionPoints THEN actionPoints[action_type] ELSE 0

SummaryFields ==
    { "total_check_ins", "total_fault_reports", "total_ai_validations",
      "total_black_spot_discoveries", "total_route_plans",
      "total_chatbot_questions", "total_quizzes_correct",
      "total_easter_eggs_redeemed", "total_virtual_items_purchased" }

(* `total_${action_type}s` *)
summaryKey(action_type) == "total_" \o action_type \o "s"

(* new GameProfile({ main_app_user_id: userId }): the schema defaults *)
NewGameProfile(userId) ==
    [ main_app_user_id |-> userId,
      points_balance |-> 0,
      net_worth |-> 0,
      current_app_login_streak |-> 0,
      longest_app_login_streak |-> 0,
      last_login_date |-> NULL,
      contribution_summary |-> [f \in SummaryFields |-> 0],
      badges_earned |-> <<>>,
      virtual_items |-> <<>>,
      active_quests |-> <<>> ]

(* GameProfile.findOne({ main_app_user_id: userId }): no document or one *)
FindProfile(userId) == {p \in game_profiles : p.main_app_user_id = userId}

(* GameVirtualItem.findOne({ item_id_string: itemId }) *)
FindItem(itemId) == {i \in game_virtual_items : i.item_id_string = itemId}

(* MongooseArray.includes: membership by _id *)
Includes(arr, oid) == \E k \in 1..Len(arr) : arr[k] = oid

NoDetails == [points_change |-> NULL, reason |-> "", item_id_string |-> ""]

IdleCall ==
    [ pc |-> "idle", op |-> "", userId |-> "", arg |-> "", item |-> {},
      isNew |-> FALSE, orig |-> {}, doc |-> {}, status |-> 0, message |-> "" ]

NoPre == [profiles |-> {}, events |-> <<>>]

----------------------------------------------------------------------------
(* Mongoose document.save() *)

(* the update save() sends: $set of every path whose value differs from the
   value loaded, $push of the elements appended to an array *)
ApplyDelta(stored, orig, doc) ==
    [ main_app_user_id |-> stored.main_app_user_id,
      points_balance |->
          IF doc.points_balance # orig.points_balance
          THEN doc.points_balance ELSE stored.points_balance,
      net_worth |->
          IF doc.net_worth # orig.net_worth
          THEN doc.net_worth ELSE stored.net_worth,
      current_app_login_streak |->
          IF doc.current_app_login_streak # orig.current_app_login_streak
          THEN doc.current_app_login_streak ELSE stored.current_app_login_streak,
      longest_app_login_streak |->
          IF doc.longest_app_login_streak # orig.longest_app_login_streak
          THEN doc.longest_app_login_streak ELSE stored.longest_app_login_streak,
      last_login_date |->
          IF doc.last_login_date # orig.last_login_date
          THEN doc.last_login_date ELSE stored.last_login_date,
      contribution_summary |->
          [f \in SummaryFields |->
              IF doc.contribution_summary[f] # orig.contribution_summary[f]
              THEN doc.contribution_summary[f]
              ELSE stored.contribution_summary[f]],
      badges_earned |->
          stored.badges_earned \o
              SubSeq(doc.badges_earned, Len(orig.badges_earned) + 1,
                     Len(doc.badges_earned)),
      virtual_items |->
          stored.virtual_items \o
              SubSeq(doc.virtual_items, Len(orig.virtual_items) + 1,
                     Len(doc.virtual_items)),
      active_quests |-> stored.active_quests ]

(* save() of a document: an insert when it was built with new GameProfile,
   an update of the stored document otherwise.  The insert is refused when
   main_app_user_id (unique: true) is taken, the update when the document
   is gone (profiles are never deleted here, so that case does not arise). *)
SaveFails(c) ==
    IF c.isNew THEN FindProfile(c.userId) # {} ELSE FindProfile(c.userId) = {}

(* await eventLog.save(): one document inserted into game_events *)
SavedEvents(eventLog) == Append(game_events, eventLog)

SavedProfiles(c) ==
    IF c.isNew
    THEN game_profiles \cup c.doc
    ELSE (game_profiles \ FindProfile(c.userId)) \cup
         { ApplyDelta(Val(FindProfile(c.userId)), Val(c.orig), Val(c.doc)) }

----------------------------------------------------------------------------
Init ==
    /\ game_profiles = {}
    /\ game_events = <<>>
    /\ game_virtual_items = {}
    /\ game_badges = {}
    /\ game_quests = {}
    /\ charger_sessions = {}
    /\ nextOid = 1
    /\ now = 0
    /\ calls = [s \in Slots |-> IdleCall]
    /\ pre = [s \in Slots |-> NoPre]
    /\ nCalls = 0

----------------------------------------------------------------------------
(* purchaseVirtualItem: pure parts *)

Response(status, message) == [status |-> status, message |-> message]

(* the checks without the affordability test *)
PurchaseCheck_NoFundsTest(itemId, item, userProfile) ==
    IF item = {}
    THEN Response(404, "Item with ID '" \o itemId \o "' not found.")
    ELSE IF Val(item).cost_points = NULL
    THEN Response(400, "This item cannot be purchased.")
    ELSE IF Includes(userProfile.virtual_items, Val(item)._id)
    THEN Response(400, "You already own this item.")
    ELSE Response(200, "Successfully purchased")

(* the checks with the affordability test ahead of the ownership test *)
PurchaseCheck_FundsFirst(itemId, item, userProfile) ==
    IF item = {}
    THEN Response(404, "Item with ID '" \o itemId \o "' not found.")
    ELSE IF Val(item).cost_points = NULL
    THEN Response(400, "This item cannot be purchased.")
    ELSE IF userProfile.points_balance < Val(Val(item).cost_points)
    THEN Response(400, "Insufficient points.")
    ELSE IF Includes(userProfile.virtual_items, Val(item)._id)
    THEN Response(400, "You already own this item.")
    ELSE Response(200, "Successfully purchased")

(* the checks without the ownership test *)
PurchaseCheck_NoOwnedTest(itemId, item, userProfile) ==
    IF item = {}
    THEN Response(404, "Item with ID '" \o itemId \o "' not found.")
    ELSE IF Val(item).cost_points = NULL
    THEN Response(400, "This item cannot be purchased.")
    ELSE IF userProfile.points_balance < Val(Val(item).cost_points)
    THEN Response(400, "Insufficient points.")
    ELSE Response(200, "Successfully purchased")

(* the early returns of lines 111-115, in the order the code takes them *)
PurchaseCheck(itemId, item, userProfile) ==
    IF item = {}
    THEN Response(404, "Item with ID '" \o itemId \o "' not found.")
    ELSE IF Val(item).cost_points = NULL
    THEN Response(400, "This item cannot be purchased.")
    ELSE IF Includes(userProfile.virtual_items, Val(item)._id)
    THEN Response(400, "You already own this item.")
    ELSE IF userProfile.points_balance < Val(Val(item).cost_points)
    THEN Response(400, "Insufficient points.")
    ELSE Response(200, "Successfully purchased")

(* net worth credited with the item's value, the price not deducted *)
PurchaseApply_GrossValue(userProfile, item) ==
    [ userProfile EXCEPT
        !.points_balance = @ - Val(item.cost_points),
        !.net_worth = @ + item.value_points,
        !.virtual_items = Append(@, item._id),
        !.contribution_summary["total_virtual_items_purchased"] = @ + 1 ]

(* lines 117-120 *)
PurchaseApply(userProfile, item) ==
    [ userProfile EXCEPT
        !.points_balance = @ - Val(item.cost_points),
        !.net_worth = @ + (item.value_points - Val(item.cost_points)),
        !.virtual_items = Append(@, item._id),
        !.contribution_summary["total_virtual_items_purchased"] = @ + 1 ]

(* the draft of purchaseVirtualItem appended to
   charger-session-controller.ts: its early returns, in its order; found is
   the stored profile, if any *)
DraftPurchaseCheck(itemId, userId, item, found) ==
    IF item = {}
    THEN Response(404, "Item with ID '" \o itemId \o "' not found.")
    ELSE IF found = {}
    THEN Response(404, "Game profile for user '" \o userId \o "' not found.")
    ELSE IF Val(item).cost_points = NULL
    THEN Response(400, "This item cannot be purchased.")
    ELSE IF Includes(Val(found).virtual_items, Val(item)._id)
    THEN Response(400, "You already own this item.")
    ELSE IF Val(found).points_balance < Val(Val(item).cost_points)
    THEN Response(400, "Insufficient points.")
    ELSE Response(200, "Successfully purchased")

(* the draft credits net worth with the item's value only *)
DraftPurchaseApply_GrossValue(userProfile, item) ==
    LET pointsChange == 0 - Val(item.cost_points)
    IN  [ userProfile EXCEPT
            !.points_balance = @ + pointsChange,
            !.net_worth = @ + item.value_points,
            !.virtual_items = Append(@, item._id),
            !.contribution_summary["total_virtual_items_purchased"] = @ + 1 ]

(* the draft's in-memory update: pointsChange, netWorthChange and the four
   assignments *)
DraftPurchaseApply(userProfile, item) ==
    LET pointsChange == 0 - Val(item.cost_points)
        netWorthChange == item.value_points + pointsChange
    IN  [ userProfile EXCEPT
            !.points_balance = @ + pointsChange,
            !.net_worth = @ + netWorthChange,
            !.virtual_items = Append(@, item._id),
            !.contribution_summary["total_virtual_items_purchased"] = @ + 1 ]

(* lines 122-132 *)
PurchaseEventLog(userId, item) ==
    [ user_id |-> userId,
      event_type |-> "POINTS_TRANSACTION",
      action_type |-> "purchase_virtual_item",
      details |-> [ points_change |-> Some(0 - Val(item.cost_points)),
                    reason |-> "ITEM_PURCHASE",
                    item_id_string |-> item.item_id_string ] ]

----------------------------------------------------------------------------
(* logAction: pure parts *)

(* Date.prototype.toDateString: the calendar day of a clock value *)
toDateString(t) == t \div TicksPerDay

(* yesterday.setDate(today.getDate() - 1): same time of day, one day back *)
Yesterday(t) == t - TicksPerDay

(* the streak continued whenever the last login is at most a day old *)
LoginStreak_Elapsed(userProfile, today) ==
    LET lastLogin == userProfile.last_login_date
        current ==
            IF lastLogin # NULL
            THEN IF today - Val(lastLogin) <= TicksPerDay
                 THEN userProfile.current_app_login_streak + 1
                 ELSE 1
            ELSE 1
    IN  [ userProfile EXCEPT
            !.current_app_login_streak = current,
            !.longest_app_login_streak = IF current > @ THEN current ELSE @,
            !.last_login_date = Some(today) ]

(* the last login compared, as an instant, with yesterday's midnight *)
LoginStreak_Midnight(userProfile, today) ==
    LET lastLogin == userProfile.last_login_date
        midnight == (today \div TicksPerDay) * TicksPerDay
        current ==
            IF lastLogin # NULL
            THEN IF Val(lastLogin) = midnight - TicksPerDay
                 THEN userProfile.current_app_login_streak + 1
                 ELSE IF Val(lastLogin) < midnight - TicksPerDay
                 THEN 1
                 ELSE userProfile.current_app_login_streak
            ELSE 1
    IN  [ userProfile EXCEPT
            !.current_app_login_streak = current,
            !.longest_app_login_streak = IF current > @ THEN current ELSE @,
            !.last_login_date = Some(today) ]

(* the longest streak overwritten with the current one *)
LoginStreak_LongestFollows(userProfile, today) ==
    LET lastLogin == userProfile.last_login_date
        current ==
            IF lastLogin # NULL
            THEN IF toDateString(Val(lastLogin)) = toDateString(Yesterday(today))
                 THEN userProfile.current_app_login_streak + 1
                 ELSE IF toDateString(Val(lastLogin)) # toDateString(today)
                 THEN 1
                 ELSE userProfile.current_app_login_streak
            ELSE 1
    IN  [ userProfile EXCEPT
            !.current_app_login_streak = current,
            !.longest_app_login_streak = current,
            !.last_login_date = Some(today) ]

(* lines 176-194 *)
LoginStreak(userProfile, today) ==
    LET lastLogin == userProfile.last_login_date
        current ==
            IF lastLogin # NULL
            THEN IF toDateString(Val(lastLogin)) = toDateString(Yesterday(today))
                 THEN userProfile.current_app_login_streak + 1
                 ELSE IF toDateString(Val(lastLogin)) # toDateString(today)
                 THEN 1
                 ELSE userProfile.current_app_login_streak
            ELSE 1
    IN  [ userProfile EXCEPT
            !.current_app_login_streak = current,
            !.longest_app_login_streak = IF current > @ THEN current ELSE @,
            !.last_login_date = Some(today) ]

(* lines 165-174 *)
BaseReward(userProfile, action_type) ==
    LET pointsToAdd == PointsToAdd(action_type)
        rewarded ==
            IF pointsToAdd > 0
            THEN [ userProfile EXCEPT
                     !.points_balance = @ + pointsToAdd,
                     !.net_worth = @ + pointsToAdd ]
            ELSE userProfile
    IN  IF summaryKey(action_type) \in SummaryFields
        THEN [ rewarded EXCEPT
                 !.contribution_summary[summaryKey(action_type)] = @ + 1 ]
        ELSE rewarded

(* no base reward for a login repeated on the day of the last login *)
LogActionApply_SameDayNoReward(userProfile, action_type, today) ==
    IF action_type = "app_login"
    THEN IF /\ userProfile.last_login_date # NULL
            /\ toDateString(Val(userProfile.last_login_date)) = toDateString(today)
         THEN LoginStreak(userProfile, today)
         ELSE LoginStreak(BaseReward(userProfile, action_type), today)
    ELSE BaseReward(userProfile, action_type)

(* a badge's criteria, read as "the named counter has reached the threshold"
   or "the action performed is the named one"; the handlers store criteria
   and never evaluate them *)
BadgeSatisfied(b, userProfile, action_type) ==
    IF b.criteria.kind = "counter"
    THEN userProfile.contribution_summary[b.criteria.counter] >=
             b.criteria.threshold
    ELSE b.criteria.action_type = action_type

(* a satisfied badge is pushed onto badges_earned, owned already or not *)
LogActionApply_RegrantBadges(userProfile, action_type, today) ==
    LET p == IF action_type = "app_login"
             THEN LoginStreak(BaseReward(userProfile, action_type), today)
             ELSE BaseReward(userProfile, action_type)
        sat == {b \in game_badges : BadgeSatisfied(b, p, action_type)}
    IN  IF sat = {} THEN p
        ELSE [p EXCEPT !.badges_earned = Append(@, (CHOOSE b \in sat : TRUE)._id)]

(* lines 165-194: the profile as logAction leaves it in memory *)
LogActionApply(userProfile, action_type, today) ==
    IF action_type = "app_login"
    THEN LoginStreak(BaseReward(userProfile, action_type), today)
    ELSE BaseReward(userProfile, action_type)

(* the event is written under one fixed user id *)
LogActionEventLog_FixedUser(userId, action_type) ==
    [ user_id |-> "u1",
      event_type |-> "ACTION_PERFORMED",
      action_type |-> action_type,
      details |-> NoDetails ]

(* lines 196-202 *)
LogActionEventLog(userId, action_type) ==
    [ user_id |-> userId,
      event_type |-> "ACTION_PERFORMED",
      action_type |-> action_type,
      details |-> NoDetails ]

----------------------------------------------------------------------------
(* Steps of the handlers *)

Free(s) == calls[s].pc \in {"idle", "done"}

Respond(s, r) ==
    calls' = [calls EXCEPT ![s].pc = "done",
                           ![s].status = r.status,
                           ![s].message = r.message]

Received(s) ==
    /\ Free(s)
    /\ nCalls < MaxCalls
    /\ nCalls' = nCalls + 1
    /\ pre' = [pre EXCEPT ![s] = [profiles |-> game_profiles, events |-> game_events]]

(* lines 100-108: validation, then the catalog read *)
PurchaseVirtualItem(s, userId, itemId) ==
    /\ Received(s)
    /\ calls' = [calls EXCEPT ![s] =
          IF itemId = ""
          THEN [IdleCall EXCEPT !.pc = "done", !.op = "purchase", !.userId = userId,
                                !.arg = itemId, !.status = 400,
                                !.message = "Item ID is required."]
          ELSE IF userId = ""
          THEN [IdleCall EXCEPT !.pc = "done", !.op = "purchase", !.userId = userId,
                                !.arg = itemId, !.status = 401,
                                !.message = "User not authenticated."]
          ELSE [IdleCall EXCEPT !.pc = "purchase_findProfile", !.op = "purchase",
                                !.userId = userId, !.arg = itemId,
                                !.item = FindItem(itemId)]]
    /\ UNCHANGED <<charger_sessions,
                   game_profiles, game_events, game_virtual_items, game_badges,
                   game_quests, nextOid, now>>

(* the profile created in the store as soon as it is found missing *)
PurchaseFindProfile_EagerCreate(s) ==
    LET c == calls[s]
        found == FindProfile(c.userId)
        userProfile == IF found = {} THEN NewGameProfile(c.userId) ELSE Val(found)
        r == PurchaseCheck(c.arg, c.item, userProfile)
    IN  /\ c.pc = "purchase_findProfile"
        /\ calls' = [calls EXCEPT ![s] =
              IF r.status # 200
              THEN [c EXCEPT !.pc = "done", !.status = r.status, !.message = r.message,
                             !.isNew = FALSE, !.orig = {userProfile}]
              ELSE [c EXCEPT !.pc = "purchase_saveProfile",
                             !.isNew = FALSE,
                             !.orig = {userProfile},
                             !.doc = {PurchaseApply(userProfile, Val(c.item))}]]
        /\ game_profiles' = game_profiles \cup {userProfile}
        /\ UNCHANGED <<charger_sessions,
                       game_events, game_virtual_items, game_badges,
                       game_quests, nextOid, now, pre, nCalls>>

(* a purchase is refused when the user has no stored profile *)
PurchaseFindProfile_ProfileRequired(s) ==
    LET c == calls[s]
        found == FindProfile(c.userId)
        userProfile == IF found = {} THEN NewGameProfile(c.userId) ELSE Val(found)
        r == IF c.item # {} /\ found = {}
             THEN Response(404, "Game profile for user '" \o c.userId
                                   \o "' not found.")
             ELSE PurchaseCheck(c.arg, c.item, userProfile)
    IN  /\ c.pc = "purchase_findProfile"
        /\ calls' = [calls EXCEPT ![s] =
              IF r.status # 200
              THEN [c EXCEPT !.pc = "done", !.status = r.status, !.message = r.message,
                             !.isNew = (found = {}), !.orig = {userProfile}]
              ELSE [c EXCEPT !.pc = "purchase_saveProfile",
                             !.isNew = (found = {}),
                             !.orig = {userProfile},
                             !.doc = {PurchaseApply(userProfile, Val(c.item))}]]
        /\ UNCHANGED <<charger_sessions,
                       game_profiles, game_events, game_virtual_items, game_badges,
                       game_quests, nextOid, now,
                       pre, nCalls>>

(* lines 109-132: the profile read, the checks and the in-memory update *)
PurchaseFindProfile(s) ==
    LET c == calls[s]
        found == FindProfile(c.userId)
        userProfile == IF found = {} THEN NewGameProfile(c.userId) ELSE Val(found)
        r == PurchaseCheck(c.arg, c.item, userProfile)
    IN  /\ c.pc = "purchase_findProfile"
        /\ calls' = [calls EXCEPT ![s] =
              IF r.status # 200
              THEN [c EXCEPT !.pc = "done", !.status = r.status, !.message = r.message,
                             !.isNew = (found = {}), !.orig = {userProfile}]
              ELSE [c EXCEPT !.pc = "purchase_saveProfile",
                             !.isNew = (found = {}),
                             !.orig = {userProfile},
                             !.doc = {PurchaseApply(userProfile, Val(c.item))}]]
        /\ UNCHANGED <<charger_sessions,
                       game_profiles, game_events, game_virtual_items, game_badges,
                       game_quests, nextOid, now,
                       pre, nCalls>>

(* line 134, and the catch of line 144 *)
PurchaseSaveProfile(s) ==
    LET c == calls[s]
    IN  /\ c.pc = "purchase_saveProfile"
        /\ IF SaveFails(c)
           THEN /\ Respond(s, Response(500, "Server error during item purchase."))
                /\ UNCHANGED game_profiles
           ELSE /\ game_profiles' = SavedProfiles(c)
                /\ calls' = [calls EXCEPT ![s].pc = "purchase_saveEvent"]
        /\ UNCHANGED <<charger_sessions,
                       game_events, game_virtual_items, game_badges,
                       game_quests, nextOid, now, pre, nCalls>>

(* lines 135-143 *)
PurchaseSaveEvent(s) ==
    LET c == calls[s]
    IN  /\ c.pc = "purchase_saveEvent"
        /\ game_events' = SavedEvents(PurchaseEventLog(c.userId, Val(c.item)))
        /\ Respond(s, Response(200, "Successfully purchased"))
        /\ UNCHANGED <<charger_sessions,
                       game_profiles, game_virtual_items, game_badges,
                       game_quests, nextOid, now, pre, nCalls>>

(* lines 152-202: validation, the profile read and the in-memory update *)
LogAction(s, userId, action_type) ==
    LET found == FindProfile(userId)
        userProfile == IF found = {} THEN NewGameProfile(userId) ELSE Val(found)
    IN  /\ Received(s)
        /\ calls' = [calls EXCEPT ![s] =
              IF action_type = ""
              THEN [IdleCall EXCEPT !.pc = "done", !.op = "logAction",
                                    !.userId = userId, !.arg = action_type,
                                    !.status = 400,
                                    !.message = "Action type is required."]
              ELSE IF userId = ""
              THEN [IdleCall EXCEPT !.pc = "done", !.op = "logAction",
                                    !.userId = userId, !.arg = action_type,
                                    !.status = 401,
                                    !.message = "User not authenticated."]
              ELSE [IdleCall EXCEPT !.pc = "log_saveProfile", !.op = "logAction",
                                    !.userId = userId, !.arg = action_type,
                                    !.isNew = (found = {}),
                                    !.orig = {userProfile},
                                    !.doc = {LogActionApply(userProfile, action_type, now)}]]
        /\ UNCHANGED <<charger_sessions,
                       game_profiles, game_events, game_virtual_items, game_badges,
                       game_quests, nextOid, now>>

(* line 204, and the catch of line 210 *)
LogActionSaveProfile(s) ==
    LET c == calls[s]
    IN  /\ c.pc = "log_saveProfile"
        /\ IF SaveFails(c)
           THEN /\ Respond(s, Response(500, "Server error logging action."))
                /\ UNCHANGED game_profiles
           ELSE /\ game_profiles' = SavedProfiles(c)
                /\ calls' = [calls EXCEPT ![s].pc = "log_saveEvent"]
        /\ UNCHANGED <<charger_sessions,
                       game_events, game_virtual_items, game_badges,
                       game_quests, nextOid, now, pre, nCalls>>

(* lines 205-209 *)
LogActionSaveEvent(s) ==
    LET c == calls[s]
    IN  /\ c.pc = "log_saveEvent"
        /\ game_events' = SavedEvents(LogActionEventLog(c.userId, c.arg))
        /\ Respond(s, Response(200, "Action logged successfully"))
        /\ UNCHANGED <<charger_sessions,
                       game_profiles, game_virtual_items, game_badges,
                       game_quests, nextOid, now, pre, nCalls>>

----------------------------------------------------------------------------
(* Catalog management and the clock *)

(* lines 331-339; item_id_string is unique: true *)
CreateVirtualItem(itemId, body) ==
    /\ nextOid <= MaxItems
    /\ FindItem(itemId) = {}
    /\ game_virtual_items' = game_virtual_items \cup
          { [ _id |-> nextOid, item_id_string |-> itemId,
              cost_points |-> body.cost_points,
              value_points |-> body.value_points ] }
    /\ nextOid' = nextOid + 1
    /\ UNCHANGED <<charger_sessions,
                   game_profiles, game_events, game_badges, game_quests, now, calls,
                   pre, nCalls>>

(* lines 363-374 *)
UpdateVirtualItem(oid, body) ==
    /\ \E i \in game_virtual_items :
          /\ i._id = oid
          /\ game_virtual_items' = (game_virtual_items \ {i}) \cup
                { [ i EXCEPT !.cost_points = body.cost_points,
                             !.value_points = body.value_points ] }
    /\ UNCHANGED <<charger_sessions,
                   game_profiles, game_events, game_badges, game_quests, nextOid,
                   now, calls, pre, nCalls>>

(* lines 376-387 *)
DeleteVirtualItem(oid) ==
    /\ \E i \in game_virtual_items :
          /\ i._id = oid
          /\ game_virtual_items' = game_virtual_items \ {i}
    /\ UNCHANGED <<charger_sessions,
                   game_profiles, game_events, game_badges, game_quests, nextOid,
                   now, calls, pre, nCalls>>

Tick ==
    /\ now < MaxTime
    /\ now' = now + 1
    /\ UNCHANGED <<charger_sessions,
                   game_profiles, game_events, game_virtual_items, game_badges,
                   game_quests, nextOid, calls,
                   pre, nCalls>>

----------------------------------------------------------------------------
(* Specifications *)

ActionInputs == {"app_login", "check_in", "report_fault", "fault_report", ""}
UserInputs == Users \cup {""}
ItemInputs == ItemIds \cup {""}

Step(s) ==
    \/ PurchaseFindProfile(s)
    \/ PurchaseSaveProfile(s)
    \/ PurchaseSaveEvent(s)
    \/ LogActionSaveProfile(s)
    \/ LogActionSaveEvent(s)

Environment ==
    \/ \E itemId \in ItemIds, body \in ItemBodies : CreateVirtualItem(itemId, body)
    \/ \E oid \in 1..MaxItems, body \in ItemBodies : UpdateVirtualItem(oid, body)
    \/ \E oid \in 1..MaxItems : DeleteVirtualItem(oid)
    \/ Tick

(* one request at a time: a request arrives only when none is in flight *)
NoneInFlight == \A s \in Slots : Free(s)

Next ==
    \/ \E userId \in UserInputs, itemId \in ItemInputs :
          NoneInFlight /\ PurchaseVirtualItem(1, userId, itemId)
    \/ \E userId \in UserInputs, action_type \in ActionInputs :
          NoneInFlight /\ LogAction(1, userId, action_type)
    \/ Step(1)
    \/ Environment

Spec == Init /\ [][Next]_vars

(* requests arrive at any time and interleave at their awaits; the catalog
   is only filled *)
NextConcurrent ==
    \/ \E s \in Slots, userId \in UserInputs, itemId \in ItemInputs :
          PurchaseVirtualItem(s, userId, itemId)
    \/ \E s \in Slots, userId \in UserInputs, action_type \in ActionInputs :
          LogAction(s, userId, action_type)
    \/ \E s \in Slots : Step(s)
    \/ \E itemId \in ItemIds, body \in ItemBodies : CreateVirtualItem(itemId, body)

SpecConcurrent == Init /\ [][NextConcurrent]_vars

(* storage that can refuse a write: save() rejects, the handler's catch
   answers 500 *)
SaveProfileError(s) ==
    LET c == calls[s]
    IN  /\ c.pc \in {"purchase_saveProfile", "log_saveProfile"}
        /\ Respond(s, Response(500, IF c.op = "purchase"
                                    THEN "Server error during item purchase."
                                    ELSE "Server error logging action."))
        /\ UNCHANGED <<charger_sessions,
                       game_profiles, game_events, game_virtual_items, game_badges,
                       game_quests, nextOid, now,
                       pre, nCalls>>

SaveEventError(s) ==
    LET c == calls[s]
    IN  /\ c.pc \in {"purchase_saveEvent", "log_saveEvent"}
        /\ Respond(s, Response(500, IF c.op = "purchase"
                                    THEN "Server error during item purchase."
                                    ELSE "Server error logging action."))
        /\ UNCHANGED <<charger_sessions,
                       game_profiles, game_events, game_virtual_items, game_badges,
                       game_quests, nextOid, now,
                       pre, nCalls>>

NextFaulty ==
    \/ \E userId \in UserInputs, itemId \in ItemInputs :
          NoneInFlight /\ PurchaseVirtualItem(1, userId, itemId)
    \/ \E userId \in UserInputs, action_type \in ActionInputs :
          NoneInFlight /\ LogAction(1, userId, action_type)
    \/ Step(1)
    \/ SaveProfileError(1)
    \/ SaveEventError(1)
    \/ \E itemId \in ItemIds, body \in ItemBodies : CreateVirtualItem(itemId, body)

SpecFaulty == Init /\ [][NextFaulty]_vars

(* the value the next new Date() yields: any later time, or an earlier one
   after the server clock was set back *)
ClockChange(t) ==
    /\ t # now
    /\ now' = t
    /\ UNCHANGED <<charger_sessions,
                   game_profiles, game_events, game_virtual_items, game_badges,
                   game_quests, nextOid, calls,
                   pre, nCalls>>

StreakInputs == {"app_login", "check_in"}

(* logAction requests only, one at a time, over several days *)
NextStreak ==
    \/ \E userId \in Users, action_type \in StreakInputs :
          NoneInFlight /\ LogAction(1, userId, action_type)
    \/ LogActionSaveProfile(1)
    \/ LogActionSaveEvent(1)
    \/ \E t \in 0..MaxClock : ClockChange(t)

SpecStreak == Init /\ [][NextStreak]_vars

(* request bodies the event management interface is driven with *)
EventBodies ==
    { [ user_id |-> "u1", event_type |-> "POINTS_TRANSACTION",
        action_type |-> "manual_adjustment",
        details |-> [points_change |-> Some(5), reason |-> "TEST",
                     item_id_string |-> ""] ] }

(* lines 221-229: new GameEvent(req.body).save() *)
CreateEvent(body) ==
    /\ Len(game_events) < MaxEvents
    /\ game_events' = SavedEvents(body)
    /\ UNCHANGED <<charger_sessions,
                   game_profiles, game_virtual_items, game_badges,
                   game_quests, nextOid, now, calls, pre,
                   nCalls>>

(* lines 252-262: GameEvent.findByIdAndDelete(req.params.eventId); the
   document is named here by its position in the collection *)
DeleteEvent(k) ==
    /\ k \in 1..Len(game_events)
    /\ game_events' = SubSeq(game_events, 1, k - 1) \o
                         SubSeq(game_events, k + 1, Len(game_events))
    /\ UNCHANGED <<charger_sessions,
                   game_profiles, game_virtual_items, game_badges,
                   game_quests, nextOid, now, calls, pre,
                   nCalls>>

(* logAction requests one at a time, together with the event management
   routes of the controller *)
NextManage ==
    \/ \E userId \in Users, action_type \in StreakInputs :
          NoneInFlight /\ LogAction(1, userId, action_type)
    \/ LogActionSaveProfile(1)
    \/ LogActionSaveEvent(1)
    \/ \E body \in EventBodies : CreateEvent(body)
    \/ \E k \in 1..MaxEvents + MaxCalls : DeleteEvent(k)

SpecManage == Init /\ [][NextManage]_vars

(* request bodies the badge, quest and profile management interfaces are
   driven with *)
BadgeBodies ==
    { [ badge_id_string |-> "regular_visitor",
        criteria |-> [kind |-> "counter", counter |-> "total_check_ins",
                      threshold |-> 1, action_type |-> ""] ],
      [ badge_id_string |-> "first_login",
        criteria |-> [kind |-> "action", counter |-> "", threshold |-> 0,
                      action_type |-> "app_login"] ] }

QuestBodies ==
    { [ quest_id_string |-> "five_check_ins",
        completion_criteria |-> [counter |-> "total_check_ins", threshold |-> 5],
        rewards |-> [points |-> Some(50)] ] }

ProfileBodies ==
    { [total_check_ins |-> n, badges_earned |-> bs] :
          n \in {0, 4},
          bs \in {<<>>} \cup {<<b._id>> : b \in game_badges} }

(* lines 391-399: new GameBadge(req.body).save(); badge_id_string is
   unique: true, a second insert of it is refused and caught *)
CreateBadge(s, body) ==
    LET taken == \E b \in game_badges : b.badge_id_string = body.badge_id_string
    IN  /\ Received(s)
        /\ calls' = [calls EXCEPT ![s] =
              [IdleCall EXCEPT !.pc = "done", !.op = "createBadge",
                               !.arg = body.badge_id_string,
                               !.status = IF taken THEN 500 ELSE 201,
                               !.message = IF taken THEN "Error creating badge"
                                           ELSE "Badge created successfully"]]
        /\ game_badges' =
              IF taken THEN game_badges
              ELSE game_badges \cup
                     { [ _id |-> nextOid,
                         badge_id_string |-> body.badge_id_string,
                         criteria |-> body.criteria ] }
        /\ nextOid' = IF taken THEN nextOid ELSE nextOid + 1
        /\ UNCHANGED <<charger_sessions,
                       game_profiles, game_events, game_virtual_items,
                       game_quests, now>>

(* lines 451-459: new GameQuest(req.body).save(); status defaults to
   'ACTIVE', quest_id_string is unique: true *)
CreateQuest(s, body) ==
    LET taken == \E q \in game_quests : q.quest_id_string = body.quest_id_string
    IN  /\ Received(s)
        /\ calls' = [calls EXCEPT ![s] =
              [IdleCall EXCEPT !.pc = "done", !.op = "createQuest",
                               !.arg = body.quest_id_string,
                               !.status = IF taken THEN 500 ELSE 201,
                               !.message = IF taken THEN "Error creating quest"
                                           ELSE "Quest created successfully"]]
        /\ game_quests' =
              IF taken THEN game_quests
              ELSE game_quests \cup
                     { [ _id |-> nextOid,
                         quest_id_string |-> body.quest_id_string,
                         status |-> "ACTIVE",
                         completion_criteria |-> body.completion_criteria,
                         rewards |-> body.rewards ] }
        /\ nextOid' = IF taken THEN nextOid ELSE nextOid + 1
        /\ UNCHANGED <<charger_sessions,
                       game_profiles, game_events, game_virtual_items,
                       game_badges, now>>

(* lines 265-281: new GameProfile(req.body).save(), the paths the body
   leaves out take the schema defaults *)
CreateGameProfile(s, main_app_user_id, body) ==
    LET existingProfile == FindProfile(main_app_user_id)
        newProfile ==
            [ NewGameProfile(main_app_user_id) EXCEPT
                !.contribution_summary["total_check_ins"] = body.total_check_ins,
                !.badges_earned = body.badges_earned ]
        created == main_app_user_id # "" /\ existingProfile = {}
    IN  /\ Received(s)
        /\ calls' = [calls EXCEPT ![s] =
              [IdleCall EXCEPT
                 !.pc = "done", !.op = "createGameProfile",
                 !.userId = main_app_user_id,
                 !.status = IF created THEN 201 ELSE 400,
                 !.message =
                     IF main_app_user_id = ""
                     THEN "main_app_user_id is required."
                     ELSE IF existingProfile # {}
                     THEN "A game profile for this user already exists."
                     ELSE "Game profile created successfully"]]
        /\ game_profiles' =
              IF created THEN game_profiles \cup {newProfile} ELSE game_profiles
        /\ UNCHANGED <<charger_sessions,
                       game_events, game_virtual_items, game_badges, game_quests,
                       nextOid, now>>

(* requests one at a time: logAction together with the management of
   badges, quests and profiles *)
NextRewards ==
    \/ \E body \in BadgeBodies : NoneInFlight /\ CreateBadge(1, body)
    \/ \E body \in QuestBodies : NoneInFlight /\ CreateQuest(1, body)
    \/ \E userId \in UserInputs, body \in ProfileBodies :
          NoneInFlight /\ CreateGameProfile(1, userId, body)
    \/ \E userId \in Users, action_type \in StreakInputs :
          NoneInFlight /\ LogAction(1, userId, action_type)
    \/ LogActionSaveProfile(1)
    \/ LogActionSaveEvent(1)

SpecRewards == Init /\ [][NextRewards]_vars

(* lines 29-58: getGameProfileForUser; the profile sent back is kept in doc.
   populate() replaces the ids of the inventory by the documents in the
   response only. *)
GetGameProfileForUser(s, userId) ==
    LET userProfile == FindProfile(userId)
        defaultProfile == NewGameProfile(userId)
    IN  /\ Received(s)
        /\ calls' = [calls EXCEPT ![s] =
              IF userId = ""
              THEN [IdleCall EXCEPT !.pc = "done", !.op = "getProfile",
                                    !.userId = userId, !.status = 401,
                                    !.message = "User not authenticated."]
              ELSE [IdleCall EXCEPT
                      !.pc = "done", !.op = "getProfile", !.userId = userId,
                      !.doc = IF userProfile = {} THEN {defaultProfile}
                              ELSE userProfile,
                      !.status = 200,
                      !.message = "User profile retrieved successfully"]]
        /\ UNCHANGED <<charger_sessions,
                       game_profiles, game_events, game_virtual_items,
                       game_badges, game_quests, nextOid, now>>

(* requests one at a time: the profile read next to logAction *)
NextRead ==
    \/ \E userId \in UserInputs :
          NoneInFlight /\ GetGameProfileForUser(1, userId)
    \/ \E userId \in Users, action_type \in ActionInputs \ {""} :
          NoneInFlight /\ LogAction(1, userId, action_type)
    \/ LogActionSaveProfile(1)
    \/ LogActionSaveEvent(1)
    \/ Tick

SpecRead == Init /\ [][NextRead]_vars

(* catalog entries a user without points can meet: free, priced, not for
   sale *)
FreeItemBodies ==
    { [cost_points |-> Some(0),  value_points |-> 5],
      [cost_points |-> Some(10), value_points |-> 5],
      [cost_points |-> NULL,     value_points |-> 5] }

(* purchases one at a time over a catalog that holds a free item; no other
   handler stores a profile *)
NextFresh ==
    \/ \E userId \in UserInputs, itemId \in ItemInputs :
          NoneInFlight /\ PurchaseVirtualItem(1, userId, itemId)
    \/ PurchaseFindProfile(1)
    \/ PurchaseSaveProfile(1)
    \/ PurchaseSaveEvent(1)
    \/ \E itemId \in ItemIds, body \in FreeItemBodies :
          CreateVirtualItem(itemId, body)
    \/ \E oid \in 1..MaxItems : DeleteVirtualItem(oid)

SpecFresh == Init /\ [][NextFresh]_vars

(* requests one at a time over a catalog whose entries, once created, are
   neither updated nor deleted *)
NextFixedCatalog ==
    \/ \E userId \in Users, itemId \in ItemIds :
          NoneInFlight /\ PurchaseVirtualItem(1, userId, itemId)
    \/ \E userId \in Users, action_type \in ActionInputs \ {""} :
          NoneInFlight /\ LogAction(1, userId, action_type)
    \/ Step(1)
    \/ \E itemId \in ItemIds, body \in ItemBodies : CreateVirtualItem(itemId, body)

SpecFixedCatalog == Init /\ [][NextFixedCatalog]_vars

(* requests of two users arriving at any time and interleaving at their
   awaits *)
TwoUsers == {"u1", "u2"}
PricedItemBodies == {b \in ItemBodies : b.cost_points = Some(10)}

NextTwoUsers ==
    \/ \E s \in Slots, userId \in TwoUsers, itemId \in ItemIds :
          PurchaseVirtualItem(s, userId, itemId)
    \/ \E s \in Slots, userId \in TwoUsers :
          LogAction(s, userId, "check_in")
    \/ \E s \in Slots : Step(s)
    \/ \E itemId \in ItemIds, body \in PricedItemBodies :
          CreateVirtualItem(itemId, body)

SpecTwoUsers == Init /\ [][NextTwoUsers]_vars

----------------------------------------------------------------------------
(* Charging sessions *)

(* the _id of the n-th document created, as the string the routes carry *)
SessionOid(n) == "s" \o ToString(n)

FindSession(sessionId) == {x \in charger_sessions : x._id = sessionId}

(* ChargerSessionController.handleError: the status follows the words the
   message contains, 'not found' first, then 'already' or 'required' *)
HandleError(msg) ==
    IF \E n \in 1..MaxCalls :
          msg = "Session with ID " \o SessionOid(n) \o " not found."
    THEN Response(404, msg)
    ELSE IF msg = "Session is already ended." \/
            msg = "User ID or Station ID are required to start a session."
    THEN Response(400, msg)
    ELSE Response(500, msg)

(* the session is ended again whatever its endTime *)
EndSessionCheck_NoEndedTest(sessionId, session) ==
    IF session = {}
    THEN HandleError("Session with ID " \o sessionId \o " not found.")
    ELSE Response(200, "")

(* ChargerSessionService.endSession: the two throws before the update *)
EndSessionCheck(sessionId, session) ==
    IF session = {}
    THEN HandleError("Session with ID " \o sessionId \o " not found.")
    ELSE IF Val(session).endTime # NULL
    THEN HandleError("Session is already ended.")
    ELSE Response(200, "")

(* ChargerSessionController.createSession with ChargerSessionService.
   createSession and ChargerSessionRepository.create: the controller passes
   userId, stationId and startTime, so status is 'in_progress' *)
CreateSession(s, userId, stationId) ==
    LET valid == userId # "" /\ stationId # ""
        r == IF valid
             THEN Response(201, "Charging session ID " \o SessionOid(nextOid)
                                   \o " started.")
             ELSE HandleError(
                    "User ID or Station ID are required to start a session.")
    IN  /\ Received(s)
        /\ calls' = [calls EXCEPT ![s] =
              [IdleCall EXCEPT !.pc = "done", !.op = "createSession",
                               !.userId = userId,
                               !.arg = IF valid THEN SessionOid(nextOid) ELSE "",
                               !.status = r.status, !.message = r.message]]
        /\ charger_sessions' =
              IF valid
              THEN charger_sessions \cup
                     { [ _id |-> SessionOid(nextOid), userId |-> userId,
                         stationId |-> stationId, startTime |-> now,
                         endTime |-> NULL, status |-> "in_progress" ] }
              ELSE charger_sessions
        /\ nextOid' = IF valid THEN nextOid + 1 ELSE nextOid
        /\ UNCHANGED <<game_profiles, game_events, game_virtual_items,
                       game_badges, game_quests, now>>

(* ChargerSessionController.endSession, ChargerSessionService.endSession up
   to the update: findById, the two throws, const now = new Date() *)
EndSession(s, sessionId) ==
    LET session == FindSession(sessionId)
        r == EndSessionCheck(sessionId, session)
    IN  /\ Received(s)
        /\ calls' = [calls EXCEPT ![s] =
              IF r.status # 200
              THEN [IdleCall EXCEPT !.pc = "done", !.op = "endSession",
                                    !.arg = sessionId, !.orig = session,
                                    !.status = r.status, !.message = r.message]
              ELSE [IdleCall EXCEPT
                      !.pc = "end_update", !.op = "endSession",
                      !.arg = sessionId, !.orig = session,
                      !.doc = {[endTime |-> Some(now), status |-> "completed"]}]]
        /\ UNCHANGED <<game_profiles, game_events, game_virtual_items,
                       game_badges, game_quests, charger_sessions, nextOid, now>>

(* ChargerSessionRepository.endSession: findByIdAndUpdate(sessionId,
   { endTime, status: 'completed' }, { new: true }), then the service's
   null safeguard and the controller's answer *)
EndSessionUpdate(s) ==
    LET c == calls[s]
        stored == FindSession(c.arg)
    IN  /\ c.pc = "end_update"
        /\ IF stored = {}
           THEN /\ Respond(s, HandleError("Failed to update session."))
                /\ UNCHANGED charger_sessions
           ELSE /\ charger_sessions' =
                      (charger_sessions \ stored) \cup
                        { [ Val(stored) EXCEPT
                              !.endTime = Val(c.doc).endTime,
                              !.status = Val(c.doc).status ] }
                /\ Respond(s, Response(200, "Charging session ID " \o c.arg
                                                \o " ended."))
        /\ UNCHANGED <<game_profiles, game_events, game_virtual_items,
                       game_badges, game_quests, nextOid, now, pre, nCalls>>

SessionIdInputs == {SessionOid(n) : n \in 1..MaxCalls}
StationInputs == {"st1", ""}

(* session requests one at a time *)
NextSessions ==
    \/ \E userId \in Users, stationId \in StationInputs :
          NoneInFlight /\ CreateSession(1, userId, stationId)
    \/ \E sessionId \in SessionIdInputs :
          NoneInFlight /\ EndSession(1, sessionId)
    \/ EndSessionUpdate(1)
    \/ Tick

SpecSessions == Init /\ [][NextSessions]_vars

(* session requests arriving at any time and interleaving at their awaits *)
NextSessionsConcurrent ==
    \/ \E s \in Slots, userId \in Users, stationId \in StationInputs :
          CreateSession(s, userId, stationId)
    \/ \E s \in Slots, sessionId \in SessionIdInputs : EndSession(s, sessionId)
    \/ \E s \in Slots : EndSessionUpdate(s)
    \/ Tick

SpecSessionsConcurrent == Init /\ [][NextSessionsConcurrent]_vars

----------------------------------------------------------------------------
(* Vocabulary of the properties *)

Done(s, op) == calls[s].pc = "done" /\ calls[s].op = op

(* the profile a request works on, as the store held it when the request
   arrived: the stored document, or a fresh one *)
ProfileIn(profiles, userId) ==
    IF \E p \in profiles : p.main_app_user_id = userId
    THEN CHOOSE p \in profiles : p.main_app_user_id = userId
    ELSE NewGameProfile(userId)

PreProfile(s) == ProfileIn(pre[s].profiles, calls[s].userId)
PostProfile(s) == ProfileIn(game_profiles, calls[s].userId)

(* the events appended since the request arrived *)
Appended(s) == SubSeq(game_events, Len(pre[s].events) + 1, Len(game_events))

IsTransaction(e, userId, delta) ==
    /\ e.user_id = userId
    /\ e.event_type = "POINTS_TRANSACTION"
    /\ e.details.points_change = Some(delta)

RECURSIVE SumPointsChange(_, _)
SumPointsChange(events, userId) ==
    IF events = <<>> THEN 0
    ELSE SumPointsChange(Tail(events), userId) +
         ( IF /\ Head(events).user_id = userId
              /\ Head(events).event_type = "POINTS_TRANSACTION"
              /\ Head(events).details.points_change # NULL
           THEN Val(Head(events).details.points_change)
           ELSE 0 )

NotFoundMsg(itemId) == "Item with ID '" \o itemId \o "' not found."
NotPurchasableMsg == "This item cannot be purchased."
AlreadyOwnedMsg == "You already own this item."
InsufficientFundsMsg == "Insufficient points."

----------------------------------------------------------------------------
(* Properties *)

(* C1: in every state reachable by logAction and purchaseVirtualItem calls,
   every stored profile has pointsBalance >= 0. *)
C1_BalanceNonNegative ==
    \A p \in game_profiles : p.points_balance >= 0

(* a purchase that spent the whole balance *)
C1_Witness ==
    /\ Done(1, "purchase") /\ calls[1].status = 200
    /\ PreProfile(1).points_balance > 0
    /\ PostProfile(1).points_balance = 0

(* C2: two overlapping purchases of one user that both succeed after
   checking affordability against the same loaded profile leave the balance
   at the loaded balance minus both costs. *)
C2_NoDoubleSpend ==
    \A s, t \in Slots :
        ( /\ s # t
          /\ Done(s, "purchase") /\ calls[s].status = 200
          /\ Done(t, "purchase") /\ calls[t].status = 200
          /\ calls[s].userId = calls[t].userId
          /\ calls[s].orig = calls[t].orig )
        => PostProfile(s).points_balance =
              Val(calls[s].orig).points_balance
                - Val(Val(calls[s].item).cost_points)
                - Val(Val(calls[t].item).cost_points)

(* C3: whenever no request is in flight, every profile's balance is the sum
   of pointsChange over that user's POINTS_TRANSACTION events. *)
C3_BalanceIsLedgerSum ==
    NoneInFlight =>
        \A p \in game_profiles :
            p.points_balance = SumPointsChange(game_events, p.main_app_user_id)

(* C4: a logAction call of an action with base reward p > 0 raises
   pointsBalance and netWorth by p and appends exactly one
   POINTS_TRANSACTION event with pointsChange = p. *)
C4_BaseReward ==
    \A s \in Slots :
        ( /\ Done(s, "logAction") /\ calls[s].status = 200
          /\ PointsToAdd(calls[s].arg) > 0 )
        => LET p == PointsToAdd(calls[s].arg)
           IN  /\ PostProfile(s).points_balance = PreProfile(s).points_balance + p
               /\ PostProfile(s).net_worth = PreProfile(s).net_worth + p
               /\ Cardinality({ k \in 1..Len(Appended(s)) :
                      IsTransaction(Appended(s)[k], calls[s].userId, p) }) = 1

(* C5: a purchase reports NotFound when the item is missing; otherwise
   NotPurchasable when its cost is none; otherwise AlreadyOwned when the
   item is owned; otherwise InsufficientFunds when the balance is below the
   cost: of several failed preconditions the earliest is reported. *)
C5_FirstFailureWins ==
    \A s \in Slots :
        ( /\ Done(s, "purchase")
          /\ calls[s].status \in {200, 400, 404}
          /\ calls[s].arg # "" )
        => LET c == calls[s]
               missing == c.item = {}
               noCost == ~missing /\ Val(c.item).cost_points = NULL
               owned == ~missing /\ Includes(PreProfile(s).virtual_items, Val(c.item)._id)
               poor == /\ ~missing /\ ~noCost
                       /\ PreProfile(s).points_balance < Val(Val(c.item).cost_points)
           IN  /\ (c.message = NotFoundMsg(c.arg)) <=> missing
               /\ (c.message = NotPurchasableMsg) <=> noCost
               /\ (c.message = AlreadyOwnedMsg) <=> (~missing /\ ~noCost /\ owned)
               /\ (c.message = InsufficientFundsMsg) <=>
                      (~missing /\ ~noCost /\ ~owned /\ poor)
               /\ (c.status = 200) <=> (~missing /\ ~noCost /\ ~owned /\ ~poor)

(* an owned item that is also unaffordable: AlreadyOwned is reported *)
C5_Witness ==
    /\ Done(1, "purchase")
    /\ calls[1].item # {}
    /\ Val(calls[1].item).cost_points # NULL
    /\ Includes(PreProfile(1).virtual_items, Val(calls[1].item)._id)
    /\ PreProfile(1).points_balance < Val(Val(calls[1].item).cost_points)
    /\ calls[1].message = AlreadyOwnedMsg

(* C6: a successful purchase of an item with cost c and value v lowers
   pointsBalance by c, changes netWorth by v - c, adds the item to
   itemsOwned, raises itemsPurchased by 1 and appends exactly one
   POINTS_TRANSACTION event with reason ITEM_PURCHASE, pointsChange -c and
   the item's id. *)
C6_PurchaseEffects ==
    \A s \in Slots :
        ( Done(s, "purchase") /\ calls[s].status = 200 )
        => LET item == Val(calls[s].item)
               c == Val(item.cost_points)
               v == item.value_points
               before == PreProfile(s)
               after == PostProfile(s)
           IN  /\ after.points_balance = before.points_balance - c
               /\ after.net_worth = before.net_worth + (v - c)
               /\ after.virtual_items = Append(before.virtual_items, item._id)
               /\ after.contribution_summary["total_virtual_items_purchased"] =
                      before.contribution_summary["total_virtual_items_purchased"] + 1
               /\ Len(game_events) = Len(pre[s].events) + 1
               /\ SubSeq(game_events, 1, Len(pre[s].events)) = pre[s].events
               /\ LET e == game_events[Len(game_events)]
                  IN  /\ e.user_id = calls[s].userId
                      /\ e.event_type = "POINTS_TRANSACTION"
                      /\ e.details.reason = "ITEM_PURCHASE"
                      /\ e.details.points_change = Some(0 - c)
                      /\ e.details.item_id_string = calls[s].arg

(* scenario B: balance 100, item of cost 60 and value 80 *)
C6_Witness ==
    /\ Done(1, "purchase") /\ calls[1].status = 200
    /\ PreProfile(1).points_balance = 100
    /\ Val(calls[1].item).cost_points = Some(60)
    /\ Val(calls[1].item).value_points = 80
    /\ PostProfile(1).points_balance = 40
    /\ PostProfile(1).net_worth = PreProfile(1).net_worth + 20

(* C7: a purchase that fails a precondition leaves the stored profiles and
   the event log exactly as they were when the request arrived. *)
C7_FailedPurchaseChangesNothing ==
    \A s \in Slots :
        ( Done(s, "purchase") /\ calls[s].status \in {400, 404} )
        => /\ game_profiles = pre[s].profiles
           /\ game_events = pre[s].events

(* InsufficientFunds for a user who has no stored profile *)
C7_Witness ==
    /\ Done(1, "purchase")
    /\ calls[1].message = InsufficientFundsMsg
    /\ FindProfile(calls[1].userId) = {}
    /\ game_events = pre[1].events

(* the log records a completed purchase of the item by the user *)
Purchased(events, userId, itemId) ==
    \E k \in 1..Len(events) :
        /\ events[k].user_id = userId
        /\ events[k].event_type = "POINTS_TRANSACTION"
        /\ events[k].details.reason = "ITEM_PURCHASE"
        /\ events[k].details.item_id_string = itemId

(* C8 as stated: once a user has purchased an item, every later purchase of
   that item by that user is answered AlreadyOwned and leaves pointsBalance
   unchanged. *)
C8_AlwaysAlreadyOwned ==
    \A s \in Slots :
        ( /\ Done(s, "purchase")
          /\ calls[s].userId # "" /\ calls[s].arg # ""
          /\ Purchased(pre[s].events, calls[s].userId, calls[s].arg) )
        => /\ calls[s].message = AlreadyOwnedMsg
           /\ PostProfile(s).points_balance = PreProfile(s).points_balance

(* C8 as amended: once a user has purchased an item, every later purchase
   of that item by that user, while the catalog holds no replacement for
   the entry that was bought, fails and leaves the stored profile
   unchanged; the answer is NotFound when the item is gone, NotPurchasable
   when its cost is none and AlreadyOwned otherwise. *)
C8_RepeatPurchaseFails ==
    \A s \in Slots :
        ( /\ Done(s, "purchase")
          /\ calls[s].userId # "" /\ calls[s].arg # ""
          /\ Purchased(pre[s].events, calls[s].userId, calls[s].arg)
          /\ \/ calls[s].item = {}
             \/ Includes(PreProfile(s).virtual_items, Val(calls[s].item)._id) )
        => /\ calls[s].message =
                 IF calls[s].item = {} THEN NotFoundMsg(calls[s].arg)
                 ELSE IF Val(calls[s].item).cost_points = NULL THEN NotPurchasableMsg
                 ELSE AlreadyOwnedMsg
           /\ game_profiles = pre[s].profiles
           /\ game_events = pre[s].events

(* a repeat purchase the user could afford, answered AlreadyOwned *)
C8_Witness ==
    /\ Done(1, "purchase")
    /\ Purchased(pre[1].events, calls[1].userId, calls[1].arg)
    /\ calls[1].item # {}
    /\ Val(calls[1].item).cost_points # NULL
    /\ PreProfile(1).points_balance >= Val(Val(calls[1].item).cost_points)
    /\ calls[1].message = AlreadyOwnedMsg

(* C9: a request answered with a storage failure leaves neither a profile
   change without its event nor an event without its profile change: the
   store is as it was when the request arrived. *)
C9_NoPartialWrite ==
    \A s \in Slots :
        ( calls[s].pc = "done" /\ calls[s].status = 500 )
        => /\ game_profiles = pre[s].profiles
           /\ game_events = pre[s].events

CalendarDay(t) == t \div TicksPerDay

(* C10: an app_login on the calendar day of the previous login leaves
   loginStreak.current unchanged, whatever the two times of day. *)
C10_SameDayLoginKeepsStreak ==
    \A s \in Slots :
        ( /\ Done(s, "logAction") /\ calls[s].status = 200
          /\ calls[s].arg = "app_login"
          /\ PreProfile(s).last_login_date # NULL
          /\ CalendarDay(Val(PreProfile(s).last_login_date)) =
                CalendarDay(Val(PostProfile(s).last_login_date)) )
        => PostProfile(s).current_app_login_streak =
              PreProfile(s).current_app_login_streak

(* a second login later on the same day, with a streak of 2 *)
C10_Witness ==
    /\ Done(1, "logAction") /\ calls[1].status = 200
    /\ calls[1].arg = "app_login"
    /\ PreProfile(1).last_login_date # NULL
    /\ Val(PreProfile(1).last_login_date) < Val(PostProfile(1).last_login_date)
    /\ CalendarDay(Val(PreProfile(1).last_login_date)) =
          CalendarDay(Val(PostProfile(1).last_login_date))
    /\ PreProfile(1).current_app_login_streak = 2
    /\ PostProfile(1).current_app_login_streak = 2

(* C11: an app_login on the calendar day right after the day of the last
   login raises loginStreak.current by exactly 1, one two or more days
   after it sets current to 1, whatever the times of day. *)
C11_NextDayContinuesGapResets ==
    \A s \in Slots :
        ( /\ Done(s, "logAction") /\ calls[s].status = 200
          /\ calls[s].arg = "app_login"
          /\ PreProfile(s).last_login_date # NULL )
        => LET last == CalendarDay(Val(PreProfile(s).last_login_date))
               today == CalendarDay(Val(PostProfile(s).last_login_date))
           IN  /\ (today = last + 1) =>
                      PostProfile(s).current_app_login_streak =
                          PreProfile(s).current_app_login_streak + 1
               /\ (today >= last + 2) =>
                      PostProfile(s).current_app_login_streak = 1

(* scenario C: after logins on two consecutive days, a login two days later,
   the earlier login not at midnight *)
C11_Witness ==
    /\ Done(1, "logAction") /\ calls[1].status = 200 /\ calls[1].arg = "app_login"
    /\ Len(game_events) = 3
    /\ PreProfile(1).current_app_login_streak = 2
    /\ PreProfile(1).last_login_date # NULL
    /\ Val(PreProfile(1).last_login_date) % TicksPerDay # 0
    /\ CalendarDay(Val(PostProfile(1).last_login_date)) =
          CalendarDay(Val(PreProfile(1).last_login_date)) + 2
    /\ PostProfile(1).current_app_login_streak = 1
    /\ PostProfile(1).longest_app_login_streak = 2

(* C12: loginStreak.longest never decreases, after an app_login it is the
   maximum of its previous value and the new current, and current <= longest
   in every stored profile. *)
C12_LongestIsRunningMaximum ==
    /\ \A p \in game_profiles :
          p.current_app_login_streak <= p.longest_app_login_streak
    /\ \A s \in Slots :
          ( Done(s, "logAction") /\ calls[s].status = 200 )
          => LET before == PreProfile(s).longest_app_login_streak
                 after == PostProfile(s).longest_app_login_streak
                 current == PostProfile(s).current_app_login_streak
             IN  /\ after >= before
                 /\ calls[s].arg = "app_login" =>
                        after = IF current > before THEN current ELSE before
                 /\ calls[s].arg # "app_login" => after = before

(* a login that broke a streak: current fell below longest *)
C12_Witness ==
    /\ Done(1, "logAction") /\ calls[1].status = 200 /\ calls[1].arg = "app_login"
    /\ PreProfile(1).longest_app_login_streak = 2
    /\ PostProfile(1).longest_app_login_streak = 2
    /\ PostProfile(1).current_app_login_streak < PreProfile(1).current_app_login_streak

(* C13: an app_login whose day is earlier than the day of the stored last
   login leaves loginStreak.current unchanged. *)
C13_EarlierDayIsNoOp ==
    \A s \in Slots :
        ( /\ Done(s, "logAction") /\ calls[s].status = 200
          /\ calls[s].arg = "app_login"
          /\ PreProfile(s).last_login_date # NULL
          /\ CalendarDay(Val(PostProfile(s).last_login_date)) <
                CalendarDay(Val(PreProfile(s).last_login_date)) )
        => PostProfile(s).current_app_login_streak =
              PreProfile(s).current_app_login_streak

(* the base rewards of the actions the log records for a user *)
RECURSIVE SumRewards(_, _)
SumRewards(events, userId) ==
    IF events = <<>> THEN 0
    ELSE SumRewards(Tail(events), userId) +
         ( IF /\ Head(events).user_id = userId
              /\ Head(events).event_type = "ACTION_PERFORMED"
           THEN PointsToAdd(Head(events).action_type)
           ELSE 0 )

(* C17: n logAction calls grant the base reward n times: with only
   logAction calls made, the balance is the sum of the base rewards of all
   logged actions, same-day repeats of app_login included. *)
C17_RewardGrantedOnEveryCall ==
    NoneInFlight =>
        \A p \in game_profiles :
            /\ p.points_balance = SumRewards(game_events, p.main_app_user_id)
            /\ p.net_worth = SumRewards(game_events, p.main_app_user_id)

(* a second app_login on the same day: streak kept, reward granted again *)
C17_Witness ==
    /\ Done(1, "logAction") /\ calls[1].status = 200 /\ calls[1].arg = "app_login"
    /\ PreProfile(1).last_login_date # NULL
    /\ CalendarDay(Val(PreProfile(1).last_login_date)) =
          CalendarDay(Val(PostProfile(1).last_login_date))
    /\ PostProfile(1).current_app_login_streak = PreProfile(1).current_app_login_streak
    /\ PreProfile(1).points_balance = 10
    /\ PostProfile(1).points_balance = 20

(* the contribution counter each action type is to be counted in *)
CounterOf ==
    [ check_in |-> "total_check_ins",
      report_fault |-> "total_fault_reports",
      validate_ai_prediction |-> "total_ai_validations",
      discover_new_station_in_black_spot |-> "total_black_spot_discoveries",
      use_route_planner |-> "total_route_plans",
      ask_chatbot_question |-> "total_chatbot_questions",
      fun_quiz_correct |-> "total_quizzes_correct",
      redeem_easter_egg |-> "total_easter_eggs_redeemed" ]

(* C15: one logAction of an action type that has a contribution counter
   raises exactly that counter by 1 and leaves every other counter as it
   was. *)
C15_CounterIncremented ==
    \A s \in Slots :
        ( /\ Done(s, "logAction") /\ calls[s].status = 200
          /\ calls[s].arg \in DOMAIN CounterOf )
        => \A f \in SummaryFields :
              PostProfile(s).contribution_summary[f] =
                  PreProfile(s).contribution_summary[f] +
                      (IF f = CounterOf[calls[s].arg] THEN 1 ELSE 0)

(* C16: logAction of an action type the base-reward table does not list
   leaves pointsBalance and netWorth unchanged and appends exactly one
   event, an ACTION_PERFORMED event for that action. *)
C16_UnknownActionOnlyLogged ==
    \A s \in Slots :
        ( /\ Done(s, "logAction") /\ calls[s].status = 200
          /\ calls[s].arg \notin DOMAIN actionPoints )
        => /\ PostProfile(s).points_balance = PreProfile(s).points_balance
           /\ PostProfile(s).net_worth = PreProfile(s).net_worth
           /\ Len(Appended(s)) = 1
           /\ SubSeq(game_events, 1, Len(pre[s].events)) = pre[s].events
           /\ Appended(s)[1].event_type = "ACTION_PERFORMED"
           /\ Appended(s)[1].action_type = calls[s].arg
           /\ Appended(s)[1].user_id = calls[s].userId

(* an unlisted action logged for a user who holds points *)
C16_Witness ==
    /\ Done(1, "logAction") /\ calls[1].status = 200
    /\ calls[1].arg = "fault_report"
    /\ PreProfile(1).points_balance > 0
    /\ PostProfile(1).points_balance = PreProfile(1).points_balance
    /\ Len(game_events) = Len(pre[1].events) + 1

(* C14: the event log is append-only: every step of every operation the
   controller exposes leaves the events already written in place and
   unmodified. *)
C14_EventLogAppendOnly ==
    [][ /\ Len(game_events') >= Len(game_events)
        /\ SubSeq(game_events', 1, Len(game_events)) = game_events ]_vars

NoDuplicates(arr) ==
    \A j, k \in 1..Len(arr) : arr[j] = arr[k] => j = k

(* C18: when a logAction call leaves the profile satisfying the criterion
   of a badge it did not own, that badge is in badges_earned when the call
   returns. *)
C18_SatisfiedBadgeGranted ==
    (Done(1, "logAction") /\ calls[1].status = 200) =>
        \A b \in game_badges :
            ( /\ ~Includes(PreProfile(1).badges_earned, b._id)
              /\ BadgeSatisfied(b, PostProfile(1), calls[1].arg) )
            => Includes(PostProfile(1).badges_earned, b._id)

(* C19: a logAction call neither removes a badge from badges_earned nor
   makes a badge id appear in it twice, also when the criterion of an owned
   badge is satisfied before and after the call. *)
C19_BadgeOnceAndKept ==
    (Done(1, "logAction") /\ calls[1].status = 200) =>
        /\ \A k \in 1..Len(PreProfile(1).badges_earned) :
              Includes(PostProfile(1).badges_earned,
                       PreProfile(1).badges_earned[k])
        /\ NoDuplicates(PreProfile(1).badges_earned)
              => NoDuplicates(PostProfile(1).badges_earned)

C19_Witness ==
    /\ Done(1, "logAction") /\ calls[1].status = 200
    /\ calls[1].arg = "check_in"
    /\ PostProfile(1).contribution_summary["total_check_ins"] =
           PreProfile(1).contribution_summary["total_check_ins"] + 1
    /\ \E b \in game_badges :
          /\ Includes(PreProfile(1).badges_earned, b._id)
          /\ BadgeSatisfied(b, PreProfile(1), calls[1].arg)
          /\ BadgeSatisfied(b, PostProfile(1), calls[1].arg)
          /\ Includes(PostProfile(1).badges_earned, b._id)

QuestRewards(events, userId) ==
    {k \in 1..Len(events) :
        events[k].user_id = userId /\ events[k].event_type = "QUEST_REWARD"}

(* C20: with an ACTIVE quest "total_check_ins >= 5, reward 50 points", the
   check_in that takes the counter from 4 to 5 adds the 50 points to
   points_balance and net_worth on top of the base reward and writes one
   QUEST_REWARD event; any other check_in adds the base reward only and
   writes no QUEST_REWARD event. *)
C20_QuestCompletesOnce ==
    ( /\ Done(1, "logAction") /\ calls[1].status = 200
      /\ calls[1].arg = "check_in"
      /\ \E q \in game_quests :
            /\ q.status = "ACTIVE"
            /\ q.completion_criteria =
                   [counter |-> "total_check_ins", threshold |-> 5]
            /\ q.rewards.points = Some(50) )
    => LET Pre == PreProfile(1)
           Post == PostProfile(1)
           bonus == IF Pre.contribution_summary["total_check_ins"] = 4
                    THEN 50 ELSE 0
       IN  /\ Post.points_balance =
                  Pre.points_balance + actionPoints["check_in"] + bonus
           /\ Post.net_worth = Pre.net_worth + actionPoints["check_in"] + bonus
           /\ Cardinality(QuestRewards(Appended(1), calls[1].userId)) =
                  (IF bonus = 50 THEN 1 ELSE 0)

(* C21: a profile read for a user without stored profile answers 200 with
   the default empty profile, and a profile of that user is in the store
   afterwards. *)
C21_GetProfileCreates ==
    ( /\ Done(1, "getProfile") /\ calls[1].userId # ""
      /\ ~\E p \in pre[1].profiles : p.main_app_user_id = calls[1].userId )
    => /\ calls[1].status = 200
       /\ calls[1].doc = {NewGameProfile(calls[1].userId)}
       /\ \E p \in game_profiles : p.main_app_user_id = calls[1].userId

(* C22: when two logAction calls of one user overlap, and the second read
   the profile as the first had already written it, the first call's event
   precedes the second call's event in the log. *)
C22_EventsInUpdateOrder ==
    \A s, t \in Slots :
        ( /\ s # t
          /\ Done(s, "logAction") /\ calls[s].status = 200
          /\ Done(t, "logAction") /\ calls[t].status = 200
          /\ calls[s].userId = calls[t].userId
          /\ calls[s].arg # calls[t].arg
          /\ ~calls[t].isNew
          /\ calls[t].orig = calls[s].doc
          /\ Len(pre[t].events) = Len(pre[s].events)
          /\ Len(Appended(s)) = 2 )
        => /\ Appended(s)[1].action_type = calls[s].arg
           /\ Appended(s)[2].action_type = calls[t].arg

SessionIn(sessions, sessionId) == {x \in sessions : x._id = sessionId}

(* C23: with requests one at a time, endSession answers "Session with ID
   <id> not found." when the session does not exist and "Session is already
   ended." when it has an endTime, the session being as it was in both
   cases; otherwise it sets endTime and status 'completed'.  No step changes
   an endTime that is set. *)
C23_EndSessionOutcomes ==
    /\ [] ( Done(1, "endSession") =>
              LET c == calls[1]
                  after == SessionIn(charger_sessions, c.arg)
              IN  IF c.orig = {}
                  THEN /\ c.message =
                            "Session with ID " \o c.arg \o " not found."
                       /\ after = {}
                  ELSE IF Val(c.orig).endTime # NULL
                  THEN /\ c.message = "Session is already ended."
                       /\ after = c.orig
                  ELSE /\ c.status = 200
                       /\ after = { [ Val(c.orig) EXCEPT
                                        !.endTime = Val(c.doc).endTime,
                                        !.status = "completed" ] }
                       /\ Val(c.doc).endTime # NULL )
    /\ [][ \A x \in charger_sessions :
              x.endTime # NULL =>
                  \E y \in charger_sessions' :
                      y._id = x._id /\ y.endTime = x.endTime ]_vars

C23_Witness ==
    /\ Done(1, "endSession")
    /\ calls[1].message = "Session is already ended."
    /\ calls[1].orig # {}
    /\ Val(calls[1].orig).endTime # NULL
    /\ now > Val(Val(calls[1].orig).endTime)

(* C30: a session's status is 'completed' exactly when its endTime is set,
   two endSession calls for one session never both succeed, and no step
   changes an endTime that is set or the status of a completed session,
   also when endSession calls overlap. *)
C30_SessionStatusLifecycle ==
    /\ [] ( \A x \in charger_sessions :
              x.status = "completed" <=> x.endTime # NULL )
    /\ [] ( \A s, t \in Slots :
              ( /\ s # t
                /\ Done(s, "endSession") /\ calls[s].status = 200
                /\ Done(t, "endSession") /\ calls[t].status = 200 )
              => calls[s].arg # calls[t].arg )
    /\ [][ \A x \in charger_sessions :
              x.endTime # NULL =>
                  \E y \in charger_sessions' :
                      /\ y._id = x._id
                      /\ y.endTime = x.endTime
                      /\ y.status = x.status ]_vars

(* C24: two logAction calls of one user that overlap (both read the same
   stored profile) both take effect: balance, net worth and the check-in
   counter end as after the two calls one after the other. *)
C24_NoLostLogAction ==
    \A s, t \in Slots :
        ( /\ s # t
          /\ Done(s, "logAction") /\ calls[s].status = 200
          /\ Done(t, "logAction") /\ calls[t].status = 200
          /\ calls[s].userId = calls[t].userId
          /\ calls[s].orig = calls[t].orig )
        => LET before == Val(calls[s].orig)
               after == PostProfile(s)
               both == PointsToAdd(calls[s].arg) + PointsToAdd(calls[t].arg)
               checkIns == (IF calls[s].arg = "check_in" THEN 1 ELSE 0) +
                           (IF calls[t].arg = "check_in" THEN 1 ELSE 0)
           IN  /\ after.points_balance = before.points_balance + both
               /\ after.net_worth = before.net_worth + both
               /\ after.contribution_summary["total_check_ins"] =
                      before.contribution_summary["total_check_ins"] + checkIns

(* C25: a purchase by a user without stored profile is decided as against a
   profile with balance 0 and nothing owned: a free item is bought, a priced
   one is refused for insufficient points, the call never fails for want of
   a profile, and a profile of the user is stored exactly when the purchase
   succeeds. *)
C25_PurchaseWithoutProfile ==
    ( /\ Done(1, "purchase")
      /\ calls[1].userId # "" /\ calls[1].arg # ""
      /\ ~\E p \in pre[1].profiles : p.main_app_user_id = calls[1].userId )
    => LET c == calls[1]
           stored == {p \in game_profiles : p.main_app_user_id = c.userId}
       IN  /\ c.status \in {200, 400, 404}
           /\ c.status = 404 <=> c.item = {}
           /\ c.status = 404 => c.message = NotFoundMsg(c.arg)
           /\ c.status = 400 =>
                 c.message = IF Val(c.item).cost_points = NULL
                             THEN NotPurchasableMsg ELSE InsufficientFundsMsg
           /\ c.status = 200 <=>
                 (c.item # {} /\ Val(c.item).cost_points = Some(0))
           /\ stored # {} <=> c.status = 200
           /\ c.status = 200 =>
                 /\ Val(stored).points_balance = 0
                 /\ Val(stored).net_worth = Val(c.item).value_points
                 /\ Val(stored).virtual_items = <<Val(c.item)._id>>

C25_Witness ==
    /\ Done(1, "purchase") /\ calls[1].status = 200
    /\ pre[1].profiles = {}
    /\ \E p \in game_profiles :
          /\ p.main_app_user_id = calls[1].userId
          /\ p.virtual_items # <<>>

RECURSIVE SumValuePoints(_)
SumValuePoints(owned) ==
    IF owned = <<>> THEN 0
    ELSE SumValuePoints(Tail(owned)) +
         (CHOOSE i \in game_virtual_items : i._id = Head(owned)).value_points

(* C27: with a catalog whose entries do not change, and requests one at a
   time, every profile's net worth is its balance plus the value points of
   the items it owns. *)
C27_NetWorthIsBalancePlusItems ==
    \A p \in game_profiles :
        p.net_worth = p.points_balance + SumValuePoints(p.virtual_items)

C27_Witness ==
    \E p \in game_profiles :
        /\ p.virtual_items # <<>>
        /\ p.points_balance > 0
        /\ p.net_worth # p.points_balance
        /\ NoneInFlight

(* C28: in every stored profile no item id occurs twice in virtual_items
   and total_virtual_items_purchased is the number of items owned, also
   when purchases of one user overlap. *)
C28_InventoryConsistent ==
    \A p \in game_profiles :
        /\ NoDuplicates(p.virtual_items)
        /\ p.contribution_summary["total_virtual_items_purchased"] =
               Len(p.virtual_items)

(* C29: on a stored profile and a catalog item, the routed
   purchaseVirtualItem answers as the draft does and leaves the balance, net
   worth, owned items and purchase counter the draft would leave. *)
C29_DraftAgreesOnExistingProfile ==
    ( /\ Done(1, "purchase")
      /\ calls[1].userId # "" /\ calls[1].arg # ""
      /\ calls[1].item # {}
      /\ \E p \in pre[1].profiles : p.main_app_user_id = calls[1].userId )
    => LET c == calls[1]
           d == DraftPurchaseCheck(c.arg, c.userId, c.item, {PreProfile(1)})
           left == IF d.status = 200
                   THEN DraftPurchaseApply(PreProfile(1), Val(c.item))
                   ELSE PreProfile(1)
           kept == PostProfile(1)
       IN  /\ c.status = d.status
           /\ c.message = d.message
           /\ kept.points_balance = left.points_balance
           /\ kept.net_worth = left.net_worth
           /\ kept.virtual_items = left.virtual_items
           /\ kept.contribution_summary["total_virtual_items_purchased"] =
                  left.contribution_summary["total_virtual_items_purchased"]

C29_Witness ==
    /\ Done(1, "purchase") /\ calls[1].status = 200
    /\ \E p \in pre[1].profiles : p.main_app_user_id = calls[1].userId
    /\ Val(calls[1].item).value_points # Val(Val(calls[1].item).cost_points)
    /\ PostProfile(1).net_worth # PreProfile(1).net_worth

ProfilesOf(profiles, userId) == {p \in profiles : p.main_app_user_id = userId}

(* C26: in every interleaving of calls of two users, a step changes the
   stored profile of a user only when it is the profile save of a call of
   that user, and the event a step appends carries the id of the user whose
   call appends it. *)
C26_OtherUsersUntouched ==
    [][ /\ \A u \in TwoUsers :
              ProfilesOf(game_profiles', u) # ProfilesOf(game_profiles, u)
              => \E s \in Slots :
                    /\ calls[s].userId = u
                    /\ calls[s].pc \in {"purchase_saveProfile", "log_saveProfile"}
                    /\ calls'[s].pc # calls[s].pc
        /\ game_events' # game_events
              => \E s \in Slots :
                    /\ calls[s].pc \in {"purchase_saveEvent", "log_saveEvent"}
                    /\ calls'[s].pc # calls[s].pc
                    /\ game_events' =
                           Append(game_events, game_events'[Len(game_events')])
                    /\ game_events'[Len(game_events')].user_id = calls[s].userId
      ]_vars

C26_Witness ==
    \E s, t \in Slots :
        /\ calls[s].userId = "u1" /\ calls[t].userId = "u2"
        /\ calls[s].pc \in {"purchase_saveEvent", "log_saveEvent"}
        /\ Done(t, "logAction") /\ calls[t].status = 200
        /\ Len(pre[s].events) < Len(game_events)
        /\ ProfilesOf(game_profiles, "u1") # {}
        /\ ProfilesOf(game_profiles, "u2") # {}
        /\ game_events[Len(game_events)].user_id = "u2"

====
